---- MODULE Spec2Model ----
(***************************************************************************)
(* State-machine model of the AI diagram generator's view components:      *)
(* TextPromptGenerator, DatasetUploader, PDFProcessor, DiagramHistory and  *)
(* the DiagramViewer they embed.  Every await of a handler is a suspension *)
(* point: the handler is cut into one action per resumption, and the       *)
(* outcome of the awaited external call (resolved or rejected) is the      *)
(* input of the resuming action.                                           *)
(*                                                                         *)
(* Text is modelled as a sequence of tokens: a backtick, the word          *)
(* "mermaid", a newline, a space, and opaque words.                        *)
(*                                                                         *)
(* The user acts on the view of the active tab.  The inputs of a view are  *)
(* edited, and the tab is changed, while no handler of the view is         *)
(* suspended; a handler is called whatever the disabled attribute of its   *)
(* button says, so that the tests the handler makes itself are exercised.  *)
(***************************************************************************)
EXTENDS Integers, Sequences, FiniteSets, TLC

VARIABLES
    activeTab,          \* DiagramGenerator: the tab whose view is mounted
    persisted,          \* the record of the mounted view's latest successful db.diagrams.create
    viewer,             \* the DiagramViewer embedded in the mounted view
    \* ---- TextPromptGenerator
    prompt, diagramType, isGenerating, generatedDiagram,
    t_pc,               \* where handleGenerate is suspended: idle, me, ai, create
    t_run,              \* handleGenerate's closure and locals
    t_log,              \* external calls of the current/last handleGenerate call, in order
    t_toast,            \* the notification raised by the current/last handleGenerate call
    \* ---- DatasetUploader
    d_file, chartType, d_isProcessing, parsedData, columns, selectedColumns,
    generatedChart,
    d_pc,               \* where the running handler is suspended: idle, text, me, ai, create
    d_run,              \* the running handler's closure and locals
    d_log,              \* external calls of the current/last handler call, in order
    d_toast,            \* the notification raised by the current/last handler call
    \* ---- PDFProcessor
    p_file, p_isProcessing, progress, extractedText, generatedMindMap, processingStep,
    p_pc,               \* where handleProcessPDF is suspended: idle, me, upload, extract, ai, create
    p_run,              \* handleProcessPDF's closure and locals
    p_log,              \* external calls of the current/last handleProcessPDF call, in order
    p_toast,            \* the notification raised last
    timers,             \* the setTimeout callbacks of handleProcessPDF that are still to run
    \* ---- DiagramHistory
    diagrams, filteredDiagrams, h_isLoading, searchTerm, filterType, selectedDiagram,
    h_pc,               \* where loadDiagrams is suspended: idle, me, list
    deletes,            \* the calls of handleDeleteDiagram suspended at the store call
    h_toast             \* the notification raised last

textVars == <<prompt, diagramType, isGenerating, generatedDiagram,
              t_pc, t_run, t_log, t_toast>>

dataVars == <<d_file, chartType, d_isProcessing, parsedData, columns, selectedColumns,
              generatedChart, d_pc, d_run, d_log, d_toast>>

pdfVars == <<p_file, p_isProcessing, progress, extractedText, generatedMindMap,
             processingStep, p_pc, p_run, p_log, p_toast, timers>>

histVars == <<diagrams, filteredDiagrams, h_isLoading, searchTerm, filterType,
              selectedDiagram, h_pc, deletes, h_toast>>

vars == <<activeTab, persisted, viewer, textVars, dataVars, pdfVars, histVars>>

\* everything but the viewer
hostVars == <<activeTab, persisted, textVars, dataVars, pdfVars, histVars>>

\* everything a handler of the text view leaves alone by construction
notTextVars == <<activeTab, dataVars, pdfVars, histVars>>

\* everything a handler of the dataset view leaves alone by construction
notDataVars == <<activeTab, textVars, pdfVars, histVars>>

\* everything a handler of the PDF view leaves alone by construction
notPdfVars == <<activeTab, textVars, dataVars, histVars>>

\* everything a handler of the history view leaves alone by construction
notHistVars == <<activeTab, persisted, textVars, dataVars, pdfVars>>

----------------------------------------------------------------------------
(* Bounds of the model *)

\* Date.now() answers a millisecond in 0..MaxTime
MaxTime == 1

\* at most MaxTimers callbacks of setTimeout are waiting at a time
MaxTimers == 2

\* at most MaxPending store delete calls are pending at a time
MaxPending == 1

----------------------------------------------------------------------------
(* Text *)

BT == "bt"
MM == "mermaid"
NL == "NL"
SP == "SP"
X  == "x"

Null == "null"

\* null where a Diagram Record is expected
NoDiagram == [none |-> TRUE]

Min(a, b) == IF a < b THEN a ELSE b

IsSpace(c) == c \in {NL, SP}

\* String.prototype.slice(0, n)
Slice(s, n) == SubSeq(s, 1, Min(n, Len(s)))

\* s.slice(i) with i counted from 1
Drop(s, i) == SubSeq(s, i, Len(s))

RECURSIVE TrimStart(_)
TrimStart(s) ==
    IF s # <<>> /\ IsSpace(Head(s)) THEN TrimStart(Tail(s)) ELSE s

RECURSIVE TrimEnd(_)
TrimEnd(s) ==
    IF s # <<>> /\ IsSpace(s[Len(s)]) THEN TrimEnd(SubSeq(s, 1, Len(s) - 1)) ELSE s

\* String.prototype.trim()
Trim(s) == TrimEnd(TrimStart(s))

\* three backticks start at position i of s
FenceAt(s, i) ==
    /\ i + 2 <= Len(s)
    /\ s[i] = BT /\ s[i + 1] = BT /\ s[i + 2] = BT

HasFence(s) == \E i \in 1..Len(s) : FenceAt(s, i)

\* replace(/<fence>mermaid\n?/g, empty): leftmost, non-overlapping matches
RECURSIVE ReplaceFenceMermaid(_)
ReplaceFenceMermaid(s) ==
    IF s = <<>> THEN <<>>
    ELSE IF FenceAt(s, 1) /\ Len(s) >= 4 /\ s[4] = MM
         THEN IF Len(s) >= 5 /\ s[5] = NL
              THEN ReplaceFenceMermaid(Drop(s, 6))
              ELSE ReplaceFenceMermaid(Drop(s, 5))
         ELSE <<Head(s)>> \o ReplaceFenceMermaid(Tail(s))

\* replace(/<fence>\n?/g, empty)
RECURSIVE ReplaceFence(_)
ReplaceFence(s) ==
    IF s = <<>> THEN <<>>
    ELSE IF FenceAt(s, 1)
         THEN IF Len(s) >= 4 /\ s[4] = NL
              THEN ReplaceFence(Drop(s, 5))
              ELSE ReplaceFence(Drop(s, 4))
         ELSE <<Head(s)>> \o ReplaceFence(Tail(s))

\* "Clean up the diagram code"
CleanUp(code) == Trim(ReplaceFence(ReplaceFenceMermaid(code)))

----------------------------------------------------------------------------
(* Inputs *)

\* values offered by the text view's Select
DIAGRAM_TYPES ==
    {"flowchart", "mindmap", "sequence", "class", "gantt", "pie", "bar", "network"}

\* the fixed enumeration of diagram kinds of the data model
DiagramKinds == DIAGRAM_TYPES \cup {"line", "scatter"}

\* what the user may have typed into the prompt box
Prompts == { <<>>, <<SP, NL>>, <<X>>, <<BT, BT, BT, X>> }

\* what the completion service may answer
Responses ==
    { <<X>>,
      <<>>,
      <<SP, NL>>,
      <<BT, BT, BT, MM, NL, X, NL, BT, BT, BT>>,
      <<BT, BT, BT, MM, NL, BT, BT, BT, NL>>,
      <<BT, BT, BT, BT, MM, BT, BT, X>> }

Tabs == {"text", "dataset", "pdf", "history"}

\* outcomes of blink.ai.generateText: an answer, or a thrown error
Threw == [threw |-> TRUE, text |-> <<>>]
Completions == [threw : {FALSE}, text : Responses] \cup {Threw}

\* the answers considered for a chart or a mind map: bare code, fenced code
ShortResponses == {<<X>>, <<BT, BT, BT, MM, NL, X, NL, BT, BT, BT>>}
ShortCompletions == [threw : {FALSE}, text : ShortResponses] \cup {Threw}

Users == {"u1"}

\* readings of Date.now(): the wall clock, which the program does not control
Times == 0..MaxTime

----------------------------------------------------------------------------
(* Events of a handler's log: a call issued, and how it came back *)

Call(c) == <<"call", c>>
Ok(c)   == <<"ok", c>>
Fail(c) == <<"fail", c>>

InLog(log, e) == \E i \in 1..Len(log) : log[i] = e

\* position of the first occurrence of e in log, 0 when absent
FirstAt(log, e) ==
    IF InLog(log, e) THEN CHOOSE i \in 1..Len(log) :
                              log[i] = e /\ \A j \in 1..(i - 1) : log[j] # e
    ELSE 0

----------------------------------------------------------------------------
(* DiagramViewer *)

\* zoom factors in hundredths
ZoomDefault == 100
ZoomStep == 20
ZoomMax == 300
ZoomMin == 50

Max(a, b) == IF a > b THEN a ELSE b

\* containerRef.current is null: the container div is not in the document
NoContainer == [kind |-> "none"]
\* the container div as React mounts it, or after innerHTML = ''
EmptyContainer == [kind |-> "empty"]
\* innerHTML = svg, with scale(zoom) applied to the svg element
SvgContent(code, zoom) == [kind |-> "svg", code |-> code, zoom |-> zoom]
\* innerHTML = the "showing fallback" notice, the fallback svg and the code
FallbackContent(code) == [kind |-> "fallback", code |-> code]
\* innerHTML = the "Rendering Error" box with the raw code
RawContent(code) == [kind |-> "raw", code |-> code]

NoAttempt == [none |-> TRUE]

\* state:   diagramCode (the prop), isLoading, error, zoom
\* screen:  view, the branch of the JSX that React committed last, and
\*          container, the div behind containerRef with its innerHTML
\* pending: attempts, the calls of renderDiagram suspended at an await
\* ghost:   last, the attempt that finished last; unhandled, a rejection
\*          that left renderDiagram
Unmounted ==
    [ mounted |-> FALSE, diagramCode |-> <<>>, isLoading |-> TRUE, error |-> Null,
      zoom |-> ZoomDefault, view |-> "none", container |-> NoContainer,
      attempts |-> {}, last |-> NoAttempt, unhandled |-> FALSE ]

\* the component after its first render: useState(true), useState(null),
\* useState(1); the loading card is returned, so the container div is absent
Mounted(code) ==
    [Unmounted EXCEPT !.mounted = TRUE, !.diagramCode = code, !.view = "loading"]

\* the JSX without the test of error: the container div is returned whenever
\* the component is not loading (used to test the properties of the error
\* display)
BranchIgnoresError(v) == IF v.isLoading THEN "loading" ELSE "container"

\* the branch of the JSX the component returns
Branch(v) ==
    IF v.isLoading THEN "loading" ELSE IF v.error # Null THEN "error" ELSE "container"

\* React commits a render: the container div is in the document exactly when
\* neither the loading card nor the error text is returned; a div that is
\* mounted anew is empty
Commit(v) ==
    [v EXCEPT !.view = Branch(v),
              !.container = IF Branch(v) # "container" THEN NoContainer
                            ELSE IF @ = NoContainer THEN EmptyContainer ELSE @]

\* renderDiagram up to its first await
Start(v) ==
    [v EXCEPT !.isLoading = TRUE,
              !.error = Null,
              !.container = IF @ # NoContainer THEN EmptyContainer ELSE @,
              !.attempts = @ \cup {[code |-> v.diagramCode, zoom |-> v.zoom,
                                    stage |-> "primary"]}]

\* the effect on [diagramCode, zoom]
Effect(v) ==
    IF v.diagramCode = <<>> \/ v.container = NoContainer THEN v ELSE Start(v)

\* the parent renders <DiagramViewer diagramCode={code} />
WithProps(v, code) ==
    IF ~v.mounted THEN Effect(Mounted(code))
    ELSE IF code = v.diagramCode THEN v
    ELSE Effect(Commit([v EXCEPT !.diagramCode = code]))

\* setZoom(z)
WithZoom(v, z) == IF z = v.zoom THEN v ELSE Effect(Commit([v EXCEPT !.zoom = z]))

\* if (containerRef.current) containerRef.current.innerHTML = ...
Install(v, content) ==
    IF v.container # NoContainer THEN [v EXCEPT !.container = content] ELSE v

\* renderDiagram without its finally block
FinallyKeepsLoading(v, a, o) ==
    [v EXCEPT !.attempts = @ \ {a}, !.last = [code |-> a.code, outcome |-> o]]

\* the finally of renderDiagram, for attempt a ending with outcome o
Finally(v, a, o) ==
    [v EXCEPT !.isLoading = FALSE,
              !.attempts = @ \ {a},
              !.last = [code |-> a.code, outcome |-> o]]

\* what the user sees
Shown(v) == IF v.view = "container" THEN v.container.kind ELSE v.view

\* prev + 0.2, not clamped
ZoomedInUnclamped(z) == z + ZoomStep

\* Math.min(prev + 0.2, 3)
ZoomedIn(z) == Min(z + ZoomStep, ZoomMax)

\* Math.max(prev - 0.2, 0.5)
ZoomedOut(z) == Max(z - ZoomStep, ZoomMin)

\* the zoom buttons are part of the JSX returned when not loading
ControlsShown == viewer.mounted /\ viewer.view # "loading"

HandleZoomIn ==
    /\ ControlsShown
    /\ viewer' = WithZoom(viewer, ZoomedIn(viewer.zoom))
    /\ UNCHANGED hostVars

HandleZoomOut ==
    /\ ControlsShown
    /\ viewer' = WithZoom(viewer, ZoomedOut(viewer.zoom))
    /\ UNCHANGED hostVars

HandleResetZoom ==
    /\ ControlsShown
    /\ viewer' = WithZoom(viewer, ZoomDefault)
    /\ UNCHANGED hostVars

\* React renders the component after setIsLoading / setError
ReactCommits ==
    /\ viewer.mounted
    /\ Commit(viewer) # viewer
    /\ viewer' = Commit(viewer)
    /\ UNCHANGED hostVars

\* await mermaid.render(diagramId, diagramCode) resolves
PrimaryResolves ==
    /\ \E a \in viewer.attempts :
         /\ a.stage = "primary"
         /\ viewer' = Finally(Install(viewer, SvgContent(a.code, a.zoom)), a, "rendered")
    /\ UNCHANGED hostVars

\* await mermaid.render(diagramId, diagramCode) rejects: the catch block up
\* to the await of the fallback render
PrimaryRejects ==
    /\ \E a \in viewer.attempts :
         /\ a.stage = "primary"
         /\ viewer' = [viewer EXCEPT
                !.error = "Failed to render diagram",
                !.attempts = (@ \ {a}) \cup {[a EXCEPT !.stage = "fallback"]}]
    /\ UNCHANGED hostVars

\* await mermaid.render(fallbackId, fallbackCode) resolves
FallbackResolves ==
    /\ \E a \in viewer.attempts :
         /\ a.stage = "fallback"
         /\ viewer' = Finally(Install(viewer, FallbackContent(a.code)), a, "fallback")
    /\ UNCHANGED hostVars

\* await mermaid.render(fallbackId, fallbackCode) rejects: the inner catch
FallbackRejects ==
    /\ \E a \in viewer.attempts :
         /\ a.stage = "fallback"
         /\ viewer' = Finally(Install(viewer, RawContent(a.code)), a, "raw")
    /\ UNCHANGED hostVars

----------------------------------------------------------------------------
(* TextPromptGenerator *)

NoRun == [prompt |-> <<>>, diagramType |-> "", user |-> Null, diagramData |-> NoDiagram]

\* the test of the prompt without the trim
PromptMissingNoTrim(p) == p = <<>>

\* !prompt.trim()
PromptMissing(p) == Trim(p) = <<>>

\* no test of the diagram type at all (used to test the properties of the
\* kinds of the records)
TypeNeverMissing(t) == FALSE

\* !diagramType
TypeMissing(t) == t = ""

\* the disabled attribute of the Generate button without isGenerating (used
\* to test the properties of the controls)
GenerateDisabledWithoutFlag == PromptMissing(prompt) \/ TypeMissing(diagramType)

\* disabled={isGenerating || !prompt.trim() || !diagramType}
GenerateDisabled == isGenerating \/ PromptMissing(prompt) \/ TypeMissing(diagramType)

\* the fallbackDiagrams table and its default
FallbackDiagram(type, p) ==
    CASE type = "flowchart" -> <<"flowchart TD", NL>> \o Slice(p, 30) \o <<X>>
      [] type = "mindmap"   -> <<"mindmap", NL>> \o Slice(p, 20) \o <<NL, X>>
      [] type = "sequence"  -> <<"sequenceDiagram", NL, X>>
      [] type = "class"     -> <<"classDiagram", NL, X>>
      [] type = "gantt"     -> <<"gantt", NL>> \o Slice(p, 30) \o <<NL, X>>
      [] OTHER              -> <<"flowchart TD", NL>> \o p \o <<X>>

\* the description without the clean-up step (used to test the properties of
\* the order of the steps)
DiagramCodeNotCleaned(type, p, answer) ==
    IF answer.threw THEN FallbackDiagram(type, p) ELSE Trim(answer.text)

\* the description handleGenerate ends up with: the trimmed answer of the
\* completion service, or the fallback when the call threw; then cleaned up
DiagramCodeOf(type, p, answer) ==
    CleanUp(IF answer.threw THEN FallbackDiagram(type, p) ELSE Trim(answer.text))

\* diagramData
DiagramData(user, type, p, code, time) ==
    [ id          |-> <<"diagram", time>>,
      userId      |-> user,
      title       |-> Slice(p, 100),
      type        |-> type,
      prompt      |-> p,
      diagramCode |-> code ]

\* handleGenerate, up to its first await
HandleGenerate ==
    /\ activeTab = "text"
    /\ t_pc = "idle"
    /\ IF PromptMissing(prompt)
       THEN /\ t_toast' = "enter_prompt"
            /\ t_log' = <<>>
            /\ UNCHANGED <<isGenerating, t_pc, t_run>>
       ELSE IF TypeMissing(diagramType)
       THEN /\ t_toast' = "select_type"
            /\ t_log' = <<>>
            /\ UNCHANGED <<isGenerating, t_pc, t_run>>
       ELSE /\ isGenerating' = TRUE
            /\ t_toast' = "none"
            /\ t_run' = [NoRun EXCEPT !.prompt = prompt, !.diagramType = diagramType]
            /\ t_log' = <<Call("me")>>
            /\ t_pc' = "me"
    /\ UNCHANGED <<notTextVars, persisted, viewer, prompt, diagramType, generatedDiagram>>

\* The outer catch of handleGenerate without its finally block: the flag
\* stays set (used to test the properties of the loading flags)
GenerateFailedNoFinally(e) ==
    /\ t_toast' = "generation_failed"
    /\ UNCHANGED isGenerating
    /\ t_log' = Append(t_log, e)
    /\ t_run' = NoRun
    /\ t_pc' = "idle"

\* the outer catch and finally of handleGenerate
GenerateFailed(e) ==
    /\ t_toast' = "generation_failed"
    /\ isGenerating' = FALSE
    /\ t_log' = Append(t_log, e)
    /\ t_run' = NoRun
    /\ t_pc' = "idle"

\* await blink.auth.me() resumes
TextMeReturns ==
    /\ t_pc = "me"
    /\ \E user \in Users \cup {Null} :
         IF user = Null
         THEN /\ GenerateFailed(Fail("me"))
         ELSE /\ t_run' = [t_run EXCEPT !.user = user]
              /\ t_log' = t_log \o <<Ok("me"), Call("generateText")>>
              /\ t_pc' = "ai"
              /\ UNCHANGED <<isGenerating, t_toast>>
    /\ UNCHANGED <<notTextVars, persisted, viewer, prompt, diagramType, generatedDiagram>>

\* generateText awaited without the inner try/catch: a thrown error reaches
\* the outer catch
TextAiReturnsNoFallback ==
    /\ t_pc = "ai"
    /\ \E answer \in Completions, time \in Times :
         IF answer.threw
         THEN /\ GenerateFailed(Fail("generateText"))
         ELSE LET code == DiagramCodeOf(t_run.diagramType, t_run.prompt, answer)
                  data == DiagramData(t_run.user, t_run.diagramType, t_run.prompt, code, time)
              IN  /\ t_run' = [t_run EXCEPT !.diagramData = data]
                  /\ t_log' = t_log \o <<Ok("generateText"), Call("create")>>
                  /\ t_pc' = "create"
                  /\ UNCHANGED <<isGenerating, t_toast>>
    /\ UNCHANGED <<notTextVars, persisted, viewer, prompt, diagramType, generatedDiagram>>

\* await blink.ai.generateText() resumes
TextAiReturns ==
    /\ t_pc = "ai"
    /\ \E answer \in Completions, time \in Times :
         LET code == DiagramCodeOf(t_run.diagramType, t_run.prompt, answer)
             data == DiagramData(t_run.user, t_run.diagramType, t_run.prompt, code, time)
         IN  /\ t_run' = [t_run EXCEPT !.diagramData = data]
             /\ t_log' = t_log \o
                  <<IF answer.threw THEN Fail("generateText") ELSE Ok("generateText"),
                    Call("create")>>
    /\ t_pc' = "create"
    /\ UNCHANGED <<notTextVars, persisted, viewer, prompt, diagramType, generatedDiagram,
                   isGenerating, t_toast>>

\* setGeneratedDiagram placed before the await of create: the record is
\* displayed whether or not the store took it (used to test the properties
\* of the displayed record)
TextCreateReturnsDisplaysFirst ==
    /\ t_pc = "create"
    /\ generatedDiagram' = t_run.diagramData
    /\ viewer' = WithProps(viewer, t_run.diagramData.diagramCode)
    /\ \E ok \in BOOLEAN :
         IF ok
         THEN /\ persisted' = t_run.diagramData
              /\ t_toast' = "success"
              /\ isGenerating' = FALSE
              /\ t_log' = Append(t_log, Ok("create"))
              /\ t_run' = NoRun
              /\ t_pc' = "idle"
         ELSE /\ GenerateFailed(Fail("create"))
              /\ UNCHANGED persisted
    /\ UNCHANGED <<notTextVars, prompt, diagramType>>

\* await blink.db.diagrams.create() resumes
TextCreateReturns ==
    /\ t_pc = "create"
    /\ \E ok \in BOOLEAN :
         IF ok
         THEN /\ persisted' = t_run.diagramData
              /\ generatedDiagram' = t_run.diagramData
              /\ viewer' = WithProps(viewer, t_run.diagramData.diagramCode)
              /\ t_toast' = "success"
              /\ isGenerating' = FALSE
              /\ t_log' = Append(t_log, Ok("create"))
              /\ t_run' = NoRun
              /\ t_pc' = "idle"
         ELSE /\ GenerateFailed(Fail("create"))
              /\ UNCHANGED <<persisted, generatedDiagram, viewer>>
    /\ UNCHANGED <<notTextVars, prompt, diagramType>>

\* onChange of the Textarea, and handleExampleClick
SetPrompt ==
    /\ activeTab = "text"
    /\ t_pc = "idle"
    /\ \E p \in Prompts : prompt' = p
    /\ prompt' # prompt
    /\ UNCHANGED <<notTextVars, persisted, viewer, diagramType, isGenerating,
                   generatedDiagram, t_pc, t_run, t_log, t_toast>>

\* onValueChange of the Select
SetDiagramType ==
    /\ activeTab = "text"
    /\ t_pc = "idle"
    /\ \E t \in DIAGRAM_TYPES : diagramType' = t
    /\ diagramType' # diagramType
    /\ UNCHANGED <<notTextVars, persisted, viewer, prompt, isGenerating,
                   generatedDiagram, t_pc, t_run, t_log, t_toast>>

TextInit ==
    /\ prompt = <<>>
    /\ diagramType = ""
    /\ isGenerating = FALSE
    /\ generatedDiagram = NoDiagram
    /\ t_pc = "idle"
    /\ t_run = NoRun
    /\ t_log = <<>>
    /\ t_toast = "none"

NextText ==
    \/ SetPrompt
    \/ SetDiagramType
    \/ HandleGenerate
    \/ TextMeReturns
    \/ TextAiReturns
    \/ TextCreateReturns

----------------------------------------------------------------------------
(* DatasetUploader *)

CHART_TYPES == {"bar", "pie", "line", "scatter"}

\* a double quote inside a cell
Q == "quote"

\* words that parseFloat reads as a number, with their values
Numerals == {"10", "7", "0"}
NumValue(w) == CASE w = "10" -> 10 [] w = "7" -> 7 [] OTHER -> 0

\* A file: its name (base, extension) and, as text() delivers it, its lines,
\* each line already split at the commas into cells of tokens
NoFile == [name |-> <<>>, lines |-> <<>>]

SalesCsv ==
    [ name  |-> <<"sales", "csv">>,
      lines |-> << << <<"m">>, <<SP, "v">> >>,
                   << <<"Jan">>, <<Q, "10", Q>> >>,
                   << >>,
                   << <<"Feb">>, <<"bad">> >>,
                   << <<"Mar">> >> >> ]

BookXlsx == [ name |-> <<"book", "xlsx">>, lines |-> << << <<X>> >> >> ]

NotesTxt == [ name |-> <<"notes", "txt">>, lines |-> << << <<X>> >> >> ]

EmptyCsv == [ name |-> <<"empty", "csv">>, lines |-> << << >>, << <<SP>> >> >> ]

DataFiles == {SalesCsv, BookXlsx, NotesTxt, EmptyCsv}

LowerCase(w) ==
    CASE w = "CSV" -> "csv" [] w = "PDF" -> "pdf" [] w = "S" -> "s" [] w = "A" -> "a"
      [] OTHER -> w

\* uploadedFile.name.match(/\.(csv|xlsx|json)$/i)
AcceptedName(name) == LowerCase(name[2]) \in {"csv", "xlsx", "json"}

\* uploadedFile.name.endsWith('.csv')
EndsWithCsv(name) == name[2] = "csv"

\* line.trim() is truthy: the line holds something besides whitespace
LineKept(line) == \E i \in 1..Len(line) : Trim(line[i]) # <<>> \/ Len(line) > 1

\* v.trim().replace(/"/g, '')
CleanCell(c) == SelectSeq(Trim(c), LAMBDA t : t # Q)

\* the set of the elements of a sequence
Range(f) == {f[i] : i \in 1..Len(f)}

\* index of the last cell of headers that is named h
LastIndex(headers, h) ==
    CHOOSE i \in 1..Len(headers) :
        headers[i] = h /\ \A j \in (i + 1)..Len(headers) : headers[j] # h

\* headers.forEach((header, index) => row[header] = values[index] || '')
RowOf(headers, line) ==
    [h \in Range(headers) |->
        LET i == LastIndex(headers, h)
        IN  IF i <= Len(line) THEN CleanCell(line[i]) ELSE <<>>]

\* the CSV branch of handleFileUpload, for a text with at least one kept line
ParseCsv(textLines) ==
    LET lines   == SelectSeq(textLines, LineKept)
        headers == [i \in 1..Len(lines[1]) |-> CleanCell(lines[1][i])]
        data    == [i \in 1..(Len(lines) - 1) |-> RowOf(headers, lines[i + 1])]
    IN  [headers |-> headers, data |-> data]

\* lines[0] is undefined: lines[0].split throws
ParseThrows(textLines) == SelectSeq(textLines, LineKept) = <<>>

NaN == [nan |-> TRUE, val |-> 0]
Num(n) == [nan |-> FALSE, val |-> n]

\* parseFloat(cell)
ParseFloat(c) ==
    LET t == TrimStart(c)
    IN  IF t # <<>> /\ Head(t) \in Numerals THEN Num(NumValue(Head(t))) ELSE NaN

\* n || 0
OrZero(n) == IF n.nan \/ n.val = 0 THEN Num(0) ELSE n

\* parsedData.map(...).filter(item => !isNaN(item.y))
ChartData(rows, sel) ==
    SelectSeq(
        [i \in 1..Len(rows) |->
            [ x     |-> rows[i][sel.x],
              y     |-> OrZero(ParseFloat(rows[i][sel.y])),
              label |-> IF sel.label # <<>> THEN rows[i][sel.label] ELSE rows[i][sel.x] ]],
        LAMBDA item : ~item.y.nan)

\* chartDiagram
ChartDiagram(user, type, file, code, chartData, time) ==
    [ id          |-> <<"chart", time>>,
      userId      |-> user,
      title       |-> <<type, "chart from", file.name>>,
      type        |-> type,
      prompt      |-> <<"Chart generated from dataset:", file.name>>,
      diagramCode |-> code,
      sourceData  |-> chartData ]

NoDataRun ==
    [ file |-> NoFile, parsedData |-> <<>>, chartType |-> "",
      selectedColumns |-> [x |-> <<>>, y |-> <<>>, label |-> <<>>],
      user |-> Null, chartData |-> <<>>, chartDiagram |-> NoDiagram ]

\* the finally of both handlers
DataFinally(toast, e) ==
    /\ d_toast' = toast
    /\ d_isProcessing' = FALSE
    /\ d_log' = Append(d_log, e)
    /\ d_run' = NoDataRun
    /\ d_pc' = "idle"

\* handleFileUpload, up to its await (a file is chosen while no chart is on
\* display: the user leaves a generated chart in place)
HandleFileUpload ==
    /\ activeTab = "dataset"
    /\ d_pc = "idle"
    /\ generatedChart = NoDiagram
    /\ \E f \in DataFiles :
         IF ~AcceptedName(f.name)
         THEN /\ d_toast' = "invalid_file_type"
              /\ d_log' = <<>>
              /\ UNCHANGED <<d_file, d_isProcessing, d_pc, d_run>>
         ELSE /\ d_file' = f
              /\ d_isProcessing' = TRUE
              /\ d_toast' = "none"
              /\ d_run' = [NoDataRun EXCEPT !.file = f]
              /\ d_log' = <<Call("text")>>
              /\ d_pc' = "text"
    /\ UNCHANGED <<notDataVars, persisted, viewer, chartType, parsedData, columns,
                   selectedColumns, generatedChart>>

\* await uploadedFile.text() resumes
FileTextReturns ==
    /\ d_pc = "text"
    /\ \E ok \in BOOLEAN :
         IF ~ok
         THEN /\ DataFinally("failed_to_parse", Fail("text"))
              /\ UNCHANGED <<columns, parsedData>>
         ELSE IF ~EndsWithCsv(d_run.file.name)
         THEN /\ DataFinally("format_not_supported", Ok("text"))
              /\ UNCHANGED <<columns, parsedData>>
         ELSE IF ParseThrows(d_run.file.lines)
         THEN /\ DataFinally("failed_to_parse", Ok("text"))
              /\ UNCHANGED <<columns, parsedData>>
         ELSE /\ columns' = ParseCsv(d_run.file.lines).headers
              /\ parsedData' = ParseCsv(d_run.file.lines).data
              /\ DataFinally("file_uploaded", Ok("text"))
    /\ UNCHANGED <<notDataVars, persisted, viewer, d_file, chartType, selectedColumns,
                   generatedChart>>

\* the configuration card is rendered when parsedData.length > 0; the user
\* configures before generating and leaves a generated chart in place
ConfigShown == parsedData # <<>> /\ generatedChart = NoDiagram

\* onClick of a chart type button
SetChartType ==
    /\ activeTab = "dataset" /\ d_pc = "idle" /\ ConfigShown
    /\ \E t \in CHART_TYPES : chartType' = t
    /\ chartType' # chartType
    /\ UNCHANGED <<notDataVars, persisted, viewer, d_file, d_isProcessing, parsedData,
                   columns, selectedColumns, generatedChart, d_pc, d_run, d_log, d_toast>>

\* onValueChange of the three column Selects
SetSelectedColumns ==
    /\ activeTab = "dataset" /\ d_pc = "idle" /\ ConfigShown
    /\ \/ \E c \in Range(columns) : selectedColumns' = [selectedColumns EXCEPT !.x = c]
       \/ \E c \in Range(columns) : selectedColumns' = [selectedColumns EXCEPT !.y = c]
       \/ \E c \in Range(columns) \cup {<<>>} :
              selectedColumns' = [selectedColumns EXCEPT !.label = c]
    /\ selectedColumns' # selectedColumns
    /\ UNCHANGED <<notDataVars, persisted, viewer, d_file, chartType, d_isProcessing,
                   parsedData, columns, generatedChart, d_pc, d_run, d_log, d_toast>>

\* handleGenerateChart, up to its first await
HandleGenerateChart ==
    /\ activeTab = "dataset"
    /\ d_pc = "idle"
    /\ IF parsedData = <<>> \/ chartType = "" \/ selectedColumns.x = <<>>
          \/ selectedColumns.y = <<>>
       THEN /\ d_toast' = "missing_information"
            /\ d_log' = <<>>
            /\ UNCHANGED <<d_isProcessing, d_pc, d_run>>
       ELSE /\ d_isProcessing' = TRUE
            /\ d_toast' = "none"
            /\ d_run' = [NoDataRun EXCEPT !.file = d_file, !.parsedData = parsedData,
                             !.chartType = chartType,
                             !.selectedColumns = selectedColumns]
            /\ d_log' = <<Call("me")>>
            /\ d_pc' = "me"
    /\ UNCHANGED <<notDataVars, persisted, viewer, d_file, chartType, parsedData, columns,
                   selectedColumns, generatedChart>>

\* await blink.auth.me() resumes
DataMeReturns ==
    /\ d_pc = "me"
    /\ \E user \in Users \cup {Null} :
         IF user = Null
         THEN DataFinally("chart_generation_failed", Fail("me"))
         ELSE /\ d_run' = [d_run EXCEPT
                    !.user = user,
                    !.chartData = ChartData(d_run.parsedData, d_run.selectedColumns)]
              /\ d_log' = d_log \o <<Ok("me"), Call("generateText")>>
              /\ d_pc' = "ai"
              /\ UNCHANGED <<d_isProcessing, d_toast>>
    /\ UNCHANGED <<notDataVars, persisted, viewer, d_file, chartType, parsedData, columns,
                   selectedColumns, generatedChart>>

\* await blink.ai.generateText() resumes
DataAiReturns ==
    /\ d_pc = "ai"
    /\ \E answer \in ShortCompletions, time \in Times :
         IF answer.threw
         THEN DataFinally("chart_generation_failed", Fail("generateText"))
         ELSE /\ d_run' = [d_run EXCEPT !.chartDiagram =
                    ChartDiagram(d_run.user, d_run.chartType, d_run.file, answer.text,
                                 d_run.chartData, time)]
              /\ d_log' = d_log \o <<Ok("generateText"), Call("create")>>
              /\ d_pc' = "create"
              /\ UNCHANGED <<d_isProcessing, d_toast>>
    /\ UNCHANGED <<notDataVars, persisted, viewer, d_file, chartType, parsedData, columns,
                   selectedColumns, generatedChart>>

\* await blink.db.diagrams.create() resumes
DataCreateReturns ==
    /\ d_pc = "create"
    /\ \E ok \in BOOLEAN :
         IF ok
         THEN /\ persisted' = d_run.chartDiagram
              /\ generatedChart' = d_run.chartDiagram
              /\ viewer' = WithProps(viewer, d_run.chartDiagram.diagramCode)
              /\ DataFinally("chart_generated", Ok("create"))
         ELSE /\ DataFinally("chart_generation_failed", Fail("create"))
              /\ UNCHANGED <<persisted, generatedChart, viewer>>
    /\ UNCHANGED <<notDataVars, d_file, chartType, parsedData, columns, selectedColumns>>

DataInit ==
    /\ d_file = NoFile
    /\ chartType = ""
    /\ d_isProcessing = FALSE
    /\ parsedData = <<>>
    /\ columns = <<>>
    /\ selectedColumns = [x |-> <<>>, y |-> <<>>, label |-> <<>>]
    /\ generatedChart = NoDiagram
    /\ d_pc = "idle"
    /\ d_run = NoDataRun
    /\ d_log = <<>>
    /\ d_toast = "none"

NextData ==
    \/ HandleFileUpload
    \/ FileTextReturns
    \/ SetChartType
    \/ SetSelectedColumns
    \/ HandleGenerateChart
    \/ DataMeReturns
    \/ DataAiReturns
    \/ DataCreateReturns

----------------------------------------------------------------------------
(* PDFProcessor *)

NoPdf == [name |-> <<>>, size |-> 0]

\* 10 * 1024 * 1024 bytes
SizeLimit == 10 * 1024 * 1024

PdfFiles ==
    { [name |-> <<"paper", "PDF">>, size |-> SizeLimit],
      [name |-> <<"big", "pdf">>, size |-> SizeLimit + 1],
      [name |-> <<"notes", "txt">>, size |-> 1] }

\* uploadedFile.name.toLowerCase().endsWith('.pdf')
IsPdfName(name) == LowerCase(name[2]) = "pdf"

\* A text by its lengths: lead whitespace characters, then body characters
\* from the first to the last one that is not whitespace
Content(lead, body) == [lead |-> lead, body |-> body]
NoContent == Content(0, 0)
Contents == {NoContent, Content(0, 99), Content(1, 99), Content(0, 100), Content(0, 2500)}

ContentLength(c) == c.lead + c.body

\* c.trim().length
TrimmedLength(c) == c.body

\* c.slice(0, n)
SliceContent(c, n) == Content(Min(c.lead, n), Min(c.body, n - Min(c.lead, n)))

\* extractedContent.trim().length < 100
MinTextLen == 100

\* extractedContent.slice(0, 2000)
StoredTextLen == 2000

\* !extractedContent alone, without the test of the length (used to test
\* the properties of the rejection)
InsufficientOnlyMissing(c) == ContentLength(c) = 0

\* !extractedContent || extractedContent.trim().length < 100
Insufficient(c) == ContentLength(c) = 0 \/ TrimmedLength(c) < MinTextLen

Urls == {"url"}

\* mindMapData
MindMapData(user, file, url, content, code, time) ==
    [ id            |-> <<"mindmap", time>>,
      userId        |-> user,
      title         |-> <<"Mind map from", file.name>>,
      type          |-> "mindmap",
      prompt        |-> <<"Mind map generated from PDF:", file.name>>,
      diagramCode   |-> code,
      sourceFile    |-> url,
      extractedText |-> SliceContent(content, StoredTextLen) ]

NoPdfRun ==
    [ file |-> NoPdf, user |-> Null, publicUrl |-> Null, extractedContent |-> NoContent,
      mindMapData |-> NoDiagram ]

\* the finally of handleProcessPDF
PdfFinally(toast, events) ==
    /\ p_toast' = toast
    /\ p_isProcessing' = FALSE
    /\ timers' = timers + 1
    /\ p_log' = p_log \o events
    /\ p_run' = NoPdfRun
    /\ p_pc' = "idle"

\* the catch and the finally of handleProcessPDF
PdfFailed(events) ==
    /\ PdfFinally("pdf_processing_failed", events)
    /\ UNCHANGED <<progress, processingStep>>

\* handleFileUpload of the PDF view
HandlePdfUpload ==
    /\ activeTab = "pdf"
    /\ p_pc = "idle"
    /\ \E f \in PdfFiles :
         IF ~IsPdfName(f.name)
         THEN /\ p_toast' = "invalid_file_type"
              /\ UNCHANGED <<p_file, extractedText, generatedMindMap, progress, viewer>>
         ELSE IF f.size > SizeLimit
         THEN /\ p_toast' = "file_too_large"
              /\ UNCHANGED <<p_file, extractedText, generatedMindMap, progress, viewer>>
         ELSE /\ p_file' = f
              /\ extractedText' = NoContent
              /\ generatedMindMap' = NoDiagram
              /\ progress' = 0
              /\ viewer' = Unmounted
              /\ UNCHANGED p_toast
    /\ UNCHANGED <<notPdfVars, persisted, p_isProcessing, processingStep, p_pc, p_run,
                   p_log, timers>>

\* the Generate Mind Map button is rendered when file && !generatedMindMap
ProcessShown == p_file # NoPdf /\ generatedMindMap = NoDiagram

\* handleProcessPDF, up to its first await
HandleProcessPDF ==
    /\ activeTab = "pdf"
    /\ p_pc = "idle"
    /\ ProcessShown
    /\ timers < MaxTimers
    /\ p_isProcessing' = TRUE
    /\ progress' = 0
    /\ processingStep' = "uploading"
    /\ p_run' = [NoPdfRun EXCEPT !.file = p_file]
    /\ p_log' = <<Call("me")>>
    /\ p_toast' = "none"
    /\ p_pc' = "me"
    /\ UNCHANGED <<notPdfVars, persisted, viewer, p_file, extractedText, generatedMindMap,
                   timers>>

\* await blink.auth.me() resumes
PdfMeReturns ==
    /\ p_pc = "me"
    /\ \E user \in Users \cup {Null} :
         IF user = Null
         THEN PdfFailed(<<Fail("me")>>)
         ELSE /\ progress' = 20
              /\ p_run' = [p_run EXCEPT !.user = user]
              /\ p_log' = p_log \o <<Ok("me"), Call("upload")>>
              /\ p_pc' = "upload"
              /\ UNCHANGED <<p_isProcessing, processingStep, p_toast, timers>>
    /\ UNCHANGED <<notPdfVars, persisted, viewer, p_file, extractedText, generatedMindMap>>

\* await blink.storage.upload() resumes
PdfUploadReturns ==
    /\ p_pc = "upload"
    /\ \E url \in Urls \cup {Null} :
         IF url = Null
         THEN PdfFailed(<<Fail("upload")>>)
         ELSE /\ processingStep' = "extracting"
              /\ progress' = 40
              /\ p_run' = [p_run EXCEPT !.publicUrl = url]
              /\ p_log' = p_log \o <<Ok("upload"), Call("extractFromUrl")>>
              /\ p_pc' = "extract"
              /\ UNCHANGED <<p_isProcessing, p_toast, timers>>
    /\ UNCHANGED <<notPdfVars, persisted, viewer, p_file, extractedText, generatedMindMap>>

\* await blink.data.extractFromUrl() resumes
PdfExtractReturns ==
    /\ p_pc = "extract"
    /\ \/ /\ PdfFailed(<<Fail("extractFromUrl")>>)
          /\ UNCHANGED extractedText
       \/ \E c \in Contents :
            /\ extractedText' = c
            /\ IF Insufficient(c)
               THEN PdfFailed(<<Ok("extractFromUrl")>>)
               ELSE /\ processingStep' = "generating"
                    /\ progress' = 70
                    /\ p_run' = [p_run EXCEPT !.extractedContent = c]
                    /\ p_log' = p_log \o <<Ok("extractFromUrl"), Call("generateText")>>
                    /\ p_pc' = "ai"
                    /\ UNCHANGED <<p_isProcessing, p_toast, timers>>
    /\ UNCHANGED <<notPdfVars, persisted, viewer, p_file, generatedMindMap>>

\* await blink.ai.generateText() resumes
PdfAiReturns ==
    /\ p_pc = "ai"
    /\ \E answer \in ShortCompletions, time \in Times :
         IF answer.threw
         THEN PdfFailed(<<Fail("generateText")>>)
         ELSE /\ processingStep' = "saving"
              /\ progress' = 90
              /\ p_run' = [p_run EXCEPT !.mindMapData =
                    MindMapData(p_run.user, p_run.file, p_run.publicUrl,
                                p_run.extractedContent, answer.text, time)]
              /\ p_log' = p_log \o <<Ok("generateText"), Call("create")>>
              /\ p_pc' = "create"
              /\ UNCHANGED <<p_isProcessing, p_toast, timers>>
    /\ UNCHANGED <<notPdfVars, persisted, viewer, p_file, extractedText, generatedMindMap>>

\* await blink.db.diagrams.create() resumes
PdfCreateReturns ==
    /\ p_pc = "create"
    /\ \E ok \in BOOLEAN :
         IF ok
         THEN /\ persisted' = p_run.mindMapData
              /\ generatedMindMap' = p_run.mindMapData
              /\ viewer' = WithProps(viewer, p_run.mindMapData.diagramCode)
              /\ progress' = 100
              /\ processingStep' = "complete"
              /\ PdfFinally("pdf_processed", <<Ok("create")>>)
         ELSE /\ PdfFailed(<<Fail("create")>>)
              /\ UNCHANGED <<persisted, generatedMindMap, viewer>>
    /\ UNCHANGED <<notPdfVars, p_file, extractedText>>

\* a callback of setTimeout(..., 2000) runs
PdfTimerFires ==
    /\ timers > 0
    /\ processingStep' = ""
    /\ progress' = 0
    /\ timers' = timers - 1
    /\ UNCHANGED <<notPdfVars, persisted, viewer, p_file, p_isProcessing, extractedText,
                   generatedMindMap, p_pc, p_run, p_log, p_toast>>

PdfInit ==
    /\ p_file = NoPdf
    /\ p_isProcessing = FALSE
    /\ progress = 0
    /\ extractedText = NoContent
    /\ generatedMindMap = NoDiagram
    /\ processingStep = ""
    /\ p_pc = "idle"
    /\ p_run = NoPdfRun
    /\ p_log = <<>>
    /\ p_toast = "none"
    /\ timers = 0

NextPdf ==
    \/ HandlePdfUpload
    \/ HandleProcessPDF
    \/ PdfMeReturns
    \/ PdfUploadReturns
    \/ PdfExtractReturns
    \/ PdfAiReturns
    \/ PdfCreateReturns
    \/ PdfTimerFires

----------------------------------------------------------------------------
(* DiagramHistory *)

\* records of the store; titles and prompts are sequences of letters
Rec1 ==
    [ id |-> <<"diagram", 0>>, userId |-> "u1", title |-> <<"S", "a">>,
      type |-> "flowchart", prompt |-> <<"b">>, diagramCode |-> <<X>> ]

\* a record without a prompt
Rec2 ==
    [ id |-> <<"mindmap", 0>>, userId |-> "u1", title |-> <<"b", "A">>,
      type |-> "mindmap", diagramCode |-> <<BT, BT, BT, X>> ]

Rec3 ==
    [ id |-> <<"chart", 1>>, userId |-> "u1", title |-> <<"c">>,
      type |-> "bar", prompt |-> <<"a", "s">>, diagramCode |-> <<X>> ]

\* answers of blink.db.diagrams.list
StoreLists == {<<>>, <<Rec1, Rec2, Rec3>>, <<Rec3, Rec1>>}

SearchTerms == {<<>>, <<"a">>, <<"S">>}
FilterTypes == {"all", "flowchart", "bar"}

\* s.toLowerCase()
ToLowerCase(s) == [i \in 1..Len(s) |-> LowerCase(s[i])]

\* s.includes(t)
Includes(s, t) == \E i \in 0..(Len(s) - Len(t)) : SubSeq(s, i + 1, i + Len(t)) = t

\* the search filter comparing the texts as they are written
MatchesTermCaseSensitive(d, term) ==
    \/ Includes(d.title, term)
    \/ /\ "prompt" \in DOMAIN d
       /\ Includes(d.prompt, term)

\* the predicate of the search filter
MatchesTerm(d, term) ==
    \/ Includes(ToLowerCase(d.title), ToLowerCase(term))
    \/ /\ "prompt" \in DOMAIN d
       /\ Includes(ToLowerCase(d.prompt), ToLowerCase(term))

\* a filter that also puts its result in reverse order
FilteredReversing(list, term, type) ==
    LET kept == SelectSeq(list, LAMBDA d :
                    /\ term # <<>> => MatchesTerm(d, term)
                    /\ type # "all" => d.type = type)
    IN  [i \in 1..Len(kept) |-> kept[Len(kept) + 1 - i]]

\* filterDiagrams: the value it hands to setFilteredDiagrams
Filtered(list, term, type) ==
    LET bySearch == IF term # <<>>
                    THEN SelectSeq(list, LAMBDA d : MatchesTerm(d, term))
                    ELSE list
    IN  IF type # "all"
        THEN SelectSeq(bySearch, LAMBDA d : d.type = type)
        ELSE bySearch

\* the list and the preview are rendered when filteredDiagrams is not empty,
\* the DiagramViewer of the preview when a record is selected
Preview(v, filtered, selected) ==
    IF filtered = <<>> \/ selected = NoDiagram THEN Unmounted
    ELSE WithProps(v, selected.diagramCode)

\* the view is rendered past its loading card
ListShown == activeTab = "history" /\ ~h_isLoading

\* await blink.auth.me() of loadDiagrams resumes
LoadMeReturns ==
    /\ h_pc = "me"
    /\ \E user \in Users \cup {Null} :
         IF user = Null
         THEN /\ h_toast' = "failed_to_load"
              /\ h_isLoading' = FALSE
              /\ h_pc' = "idle"
         ELSE /\ h_pc' = "list"
              /\ UNCHANGED <<h_toast, h_isLoading>>
    /\ UNCHANGED <<notHistVars, viewer, diagrams, filteredDiagrams, searchTerm, filterType,
                   selectedDiagram, deletes>>

\* LoadListReturns without the finally block of loadDiagrams: a failed list
\* leaves isLoading set (used to test the properties of the load)
LoadListReturnsNoFinally ==
    /\ h_pc = "list"
    /\ \/ /\ h_toast' = "failed_to_load"
          /\ UNCHANGED <<diagrams, filteredDiagrams, h_isLoading>>
       \/ \E userDiagrams \in StoreLists :
            /\ diagrams' = userDiagrams
            /\ filteredDiagrams' = Filtered(userDiagrams, searchTerm, filterType)
            /\ h_isLoading' = FALSE
            /\ UNCHANGED h_toast
    /\ h_pc' = "idle"
    /\ UNCHANGED <<notHistVars, viewer, searchTerm, filterType, selectedDiagram, deletes>>

\* await blink.db.diagrams.list() resumes
LoadListReturns ==
    /\ h_pc = "list"
    /\ \/ /\ h_toast' = "failed_to_load"
          /\ UNCHANGED <<diagrams, filteredDiagrams>>
       \/ \E userDiagrams \in StoreLists :
            /\ diagrams' = userDiagrams
            /\ filteredDiagrams' = Filtered(userDiagrams, searchTerm, filterType)
            /\ UNCHANGED h_toast
    /\ h_isLoading' = FALSE
    /\ h_pc' = "idle"
    /\ UNCHANGED <<notHistVars, viewer, searchTerm, filterType, selectedDiagram, deletes>>

\* onChange of the search Input (the user filters while no delete is pending)
SetSearchTerm ==
    /\ ListShown /\ deletes = {}
    /\ \E term \in SearchTerms \ {searchTerm} :
         /\ searchTerm' = term
         /\ filteredDiagrams' = Filtered(diagrams, term, filterType)
    /\ viewer' = Preview(viewer, filteredDiagrams', selectedDiagram)
    /\ UNCHANGED <<notHistVars, diagrams, h_isLoading, filterType, selectedDiagram, h_pc,
                   deletes, h_toast>>

\* onValueChange of the type Select (as for the search term)
SetFilterType ==
    /\ ListShown /\ deletes = {}
    /\ \E type \in FilterTypes \ {filterType} :
         /\ filterType' = type
         /\ filteredDiagrams' = Filtered(diagrams, searchTerm, type)
    /\ viewer' = Preview(viewer, filteredDiagrams', selectedDiagram)
    /\ UNCHANGED <<notHistVars, diagrams, h_isLoading, searchTerm, selectedDiagram, h_pc,
                   deletes, h_toast>>

\* onClick of a card of the list, or of its eye button
SelectDiagram ==
    /\ ListShown
    /\ \E i \in 1..Len(filteredDiagrams) : selectedDiagram' = filteredDiagrams[i]
    /\ selectedDiagram' # selectedDiagram
    /\ viewer' = Preview(viewer, filteredDiagrams, selectedDiagram')
    /\ UNCHANGED <<notHistVars, diagrams, filteredDiagrams, h_isLoading, searchTerm,
                   filterType, h_pc, deletes, h_toast>>

\* handleDeleteDiagram without the early return of line 94: the store is
\* called whatever confirm() answers (used to test the properties of the
\* confirmation)
HandleDeleteDiagramUnconfirmed ==
    /\ ListShown
    /\ Cardinality(deletes) < MaxPending
    /\ \E i \in 1..Len(filteredDiagrams), confirmed \in BOOLEAN :
         LET call == [diagramId |-> filteredDiagrams[i].id,
                      selectedDiagram |-> selectedDiagram]
         IN  /\ call \notin deletes
             /\ deletes' = deletes \cup {call}
             /\ h_toast' = IF confirmed THEN "none" ELSE "declined"
    /\ UNCHANGED <<notHistVars, viewer, diagrams, filteredDiagrams, h_isLoading, searchTerm,
                   filterType, selectedDiagram, h_pc>>

\* handleDeleteDiagram up to its await: confirm() answers, and the call of
\* the store is made with the selectedDiagram of this render in the closure
HandleDeleteDiagram ==
    /\ ListShown
    /\ Cardinality(deletes) < MaxPending
    /\ \E i \in 1..Len(filteredDiagrams), confirmed \in BOOLEAN :
         LET call == [diagramId |-> filteredDiagrams[i].id,
                      selectedDiagram |-> selectedDiagram]
         IN  IF confirmed
             THEN /\ call \notin deletes
                  /\ deletes' = deletes \cup {call}
                  /\ h_toast' = "none"
             ELSE /\ h_toast' = "declined"
                  /\ UNCHANGED deletes
    /\ UNCHANGED <<notHistVars, viewer, diagrams, filteredDiagrams, h_isLoading, searchTerm,
                   filterType, selectedDiagram, h_pc>>

\* setDiagrams(prev => prev.filter(d => d.id !== diagramId))
Without(list, diagramId) == SelectSeq(list, LAMBDA d : d.id # diagramId)

\* selectedDiagram?.id === diagramId, in the closure of the call
SelectedInClosure(call) ==
    /\ call.selectedDiagram # NoDiagram
    /\ call.selectedDiagram.id = call.diagramId

\* the record taken from the list before the answer of the store is known,
\* and not put back when the call is rejected (used to test the properties
\* of a failed delete)
DeleteReturnsOptimistic ==
    /\ \E call \in deletes, ok \in BOOLEAN :
         /\ deletes' = deletes \ {call}
         /\ diagrams' = Without(diagrams, call.diagramId)
         /\ filteredDiagrams' = Filtered(diagrams', searchTerm, filterType)
         /\ selectedDiagram' = IF SelectedInClosure(call) THEN NoDiagram
                               ELSE selectedDiagram
         /\ viewer' = Preview(viewer, filteredDiagrams', selectedDiagram')
         /\ h_toast' = IF ok THEN "diagram_deleted" ELSE "failed_to_delete"
    /\ UNCHANGED <<notHistVars, h_isLoading, searchTerm, filterType, h_pc>>

\* await blink.db.diagrams.delete(diagramId) resumes
DeleteReturns ==
    /\ \E call \in deletes, ok \in BOOLEAN :
         /\ deletes' = deletes \ {call}
         /\ IF ok
            THEN /\ diagrams' = Without(diagrams, call.diagramId)
                 /\ filteredDiagrams' = Filtered(diagrams', searchTerm, filterType)
                 /\ selectedDiagram' = IF SelectedInClosure(call) THEN NoDiagram
                                       ELSE selectedDiagram
                 /\ viewer' = Preview(viewer, filteredDiagrams', selectedDiagram')
                 /\ h_toast' = "diagram_deleted"
            ELSE /\ h_toast' = "failed_to_delete"
                 /\ UNCHANGED <<diagrams, filteredDiagrams, selectedDiagram, viewer>>
    /\ UNCHANGED <<notHistVars, h_isLoading, searchTerm, filterType, h_pc>>

HistInit ==
    /\ diagrams = <<>>
    /\ filteredDiagrams = <<>>
    /\ h_isLoading = TRUE
    /\ searchTerm = <<>>
    /\ filterType = "all"
    /\ selectedDiagram = NoDiagram
    /\ h_pc = "idle"
    /\ deletes = {}
    /\ h_toast = "none"

NextHist ==
    \/ LoadMeReturns
    \/ LoadListReturns
    \/ SetSearchTerm
    \/ SetFilterType
    \/ SelectDiagram
    \/ HandleDeleteDiagram
    \/ DeleteReturns

----------------------------------------------------------------------------
(* DiagramGenerator: the tabs.  A tab's view is mounted while the tab is    *)
(* active; leaving a tab unmounts its view, and its state is gone.  The tab *)
(* is changed only while no handler of the mounted view is suspended.       *)

Quiet == t_pc = "idle" /\ d_pc = "idle" /\ p_pc = "idle" /\ h_pc = "idle" /\ deletes = {}

\* onValueChange={setActiveTab}
SetActiveTab ==
    /\ Quiet
    /\ \E tab \in Tabs \ {activeTab} : activeTab' = tab
    /\ prompt' = <<>> /\ diagramType' = "" /\ isGenerating' = FALSE
    /\ generatedDiagram' = NoDiagram
    /\ t_pc' = "idle" /\ t_run' = NoRun /\ t_log' = <<>> /\ t_toast' = "none"
    /\ d_file' = NoFile /\ chartType' = "" /\ d_isProcessing' = FALSE
    /\ parsedData' = <<>> /\ columns' = <<>>
    /\ selectedColumns' = [x |-> <<>>, y |-> <<>>, label |-> <<>>]
    /\ generatedChart' = NoDiagram
    /\ d_pc' = "idle" /\ d_run' = NoDataRun /\ d_log' = <<>> /\ d_toast' = "none"
    /\ p_file' = NoPdf /\ p_isProcessing' = FALSE /\ progress' = 0
    /\ extractedText' = NoContent /\ generatedMindMap' = NoDiagram
    /\ processingStep' = ""
    /\ p_pc' = "idle" /\ p_run' = NoPdfRun /\ p_log' = <<>> /\ p_toast' = "none"
    /\ timers' = 0
    /\ diagrams' = <<>> /\ filteredDiagrams' = <<>> /\ h_isLoading' = TRUE
    /\ searchTerm' = <<>> /\ filterType' = "all" /\ selectedDiagram' = NoDiagram
    /\ h_pc' = (IF activeTab' = "history" THEN "me" ELSE "idle")
    /\ deletes' = {} /\ h_toast' = "none"
    /\ persisted' = NoDiagram
    /\ viewer' = Unmounted

----------------------------------------------------------------------------

Init ==
    /\ activeTab = "text"
    /\ persisted = NoDiagram
    /\ viewer = Unmounted
    /\ TextInit
    /\ DataInit
    /\ PdfInit
    /\ HistInit

Next ==
    \/ NextText
    \/ NextData
    \/ NextPdf
    \/ NextHist
    \/ SetActiveTab

Spec == Init /\ [][Next]_vars

\* Every await whose promise has settled resumes, every timer that is due
\* runs: the event loop serves its queues.  The user is not obliged to act.
Fairness ==
    /\ WF_vars(TextMeReturns) /\ WF_vars(TextAiReturns) /\ WF_vars(TextCreateReturns)
    /\ WF_vars(FileTextReturns) /\ WF_vars(DataMeReturns) /\ WF_vars(DataAiReturns)
    /\ WF_vars(DataCreateReturns)
    /\ WF_vars(PdfMeReturns) /\ WF_vars(PdfUploadReturns) /\ WF_vars(PdfExtractReturns)
    /\ WF_vars(PdfAiReturns) /\ WF_vars(PdfCreateReturns) /\ WF_vars(PdfTimerFires)
    /\ WF_vars(LoadMeReturns) /\ WF_vars(LoadListReturns) /\ WF_vars(DeleteReturns)

SpecFair == Spec /\ Fairness

\* Some handler that sets a loading flag is suspended at one of its awaits
Busy == t_pc # "idle" \/ d_pc # "idle" \/ p_pc # "idle" \/ h_pc # "idle"

\* A step that resumes a handler at one of its awaits
Resumes ==
    /\ Busy
    /\ \/ TextMeReturns \/ TextAiReturns \/ TextCreateReturns
       \/ FileTextReturns \/ DataMeReturns \/ DataAiReturns \/ DataCreateReturns
       \/ PdfMeReturns \/ PdfUploadReturns \/ PdfExtractReturns \/ PdfAiReturns
       \/ PdfCreateReturns
       \/ LoadMeReturns \/ LoadListReturns

\* A resumption can happen exactly when a handler is suspended (an invariant
\* of Spec)
ResumesEnabledIffBusy == Busy <=> ENABLED <<Resumes>>_vars

\* The promises that the handlers await settle: at most one handler is
\* suspended at a time, and it is resumed.  Nothing else is promised.  This
\* is WF_vars(Resumes), that is []<>~ENABLED <<Resumes>>_vars \/
\* []<><<Resumes>>_vars, with Busy written for the ENABLED.
SpecSettles == Spec /\ ([]<>(~Busy) \/ []<><<Resumes>>_vars)

----------------------------------------------------------------------------
(* DiagramViewer taken alone.  In the views above the effect of a viewer   *)
(* never gets past its test of containerRef.current; here renderDiagram is *)
(* entered whatever containerRef holds, while no other call of it is       *)
(* suspended, and the parent only hands over descriptions.                 *)

ViewerCodes == {<<X>>, <<BT, BT, BT, X>>}

\* renderDiagram is entered and runs to its first await
RenderDiagram ==
    /\ viewer.mounted
    /\ viewer.diagramCode # <<>>
    /\ viewer.attempts = {}
    /\ viewer' = Start(viewer)
    /\ UNCHANGED hostVars

\* the parent renders the viewer with another description
SetDiagramCode ==
    /\ viewer.mounted
    /\ \E code \in ViewerCodes \ {viewer.diagramCode} : viewer' = WithProps(viewer, code)
    /\ UNCHANGED hostVars

InitViewer ==
    /\ activeTab = "text"
    /\ persisted = NoDiagram
    /\ \E code \in ViewerCodes : viewer = Mounted(code)
    /\ TextInit
    /\ DataInit
    /\ PdfInit
    /\ HistInit

NextViewer ==
    \/ RenderDiagram
    \/ SetDiagramCode
    \/ ReactCommits
    \/ HandleZoomIn
    \/ HandleZoomOut
    \/ HandleResetZoom
    \/ PrimaryResolves
    \/ PrimaryRejects
    \/ FallbackResolves
    \/ FallbackRejects

SpecViewer == InitViewer /\ [][NextViewer]_vars

----------------------------------------------------------------------------
(* Vocabulary of the claims *)

\* a text made of whitespace only (or empty)
Blank(p) == \A i \in 1..Len(p) : IsSpace(p[i])

\* the syntax marker a fallback description for a kind starts with
FallbackHeader(kind) ==
    CASE kind = "mindmap"  -> "mindmap"
      [] kind = "sequence" -> "sequenceDiagram"
      [] kind = "class"    -> "classDiagram"
      [] kind = "gantt"    -> "gantt"
      [] OTHER             -> "flowchart TD"

IsFallbackFor(code, kind) ==
    /\ code # <<>>
    /\ code[1] = FallbackHeader(kind)
    /\ ~HasFence(code)

TextAiFailed == InLog(t_log, Fail("generateText"))

----------------------------------------------------------------------------
(* C1 *)

\* C1: in the text-prompt flow, for every kind and non-blank prompt, once the
\* completion call has failed a fallback description is synthesized and a
\* record with it is handed to the store without any error notification;
\* when the store accepts it the action ends in success, with that record
\* persisted and displayed.  A failure notice after a failed completion call
\* has the store call as its only cause.
C1_FallbackAbsorbsCompletionFailure ==
    /\ (TextAiFailed /\ t_pc = "create") =>
          /\ t_toast = "none"
          /\ isGenerating
          /\ t_run.diagramData.type = diagramType
          /\ t_run.diagramData.prompt = prompt
          /\ IsFallbackFor(t_run.diagramData.diagramCode, diagramType)
    /\ (TextAiFailed /\ t_pc = "idle") =>
          IF InLog(t_log, Ok("create"))
          THEN /\ t_toast = "success"
               /\ generatedDiagram # NoDiagram
               /\ generatedDiagram = persisted
               /\ IsFallbackFor(generatedDiagram.diagramCode, generatedDiagram.type)
          ELSE /\ InLog(t_log, Fail("create"))
               /\ t_toast = "generation_failed"

\* C1 witness: a run whose completion call failed has ended in success
C1_Witness ==
    /\ TextAiFailed
    /\ t_pc = "idle"
    /\ t_toast = "success"
    /\ generatedDiagram.type = "mindmap"

----------------------------------------------------------------------------
(* C2 *)

\* C2: a handleGenerate call made with a blank (empty or whitespace-only)
\* prompt or without a diagram kind is refused with a validation notice; it
\* issues no external call, does not set the in-flight flag, and leaves the
\* displayed record (and the store) as they were.
C2_ValidationRefuses ==
    [][ (HandleGenerate /\ (Blank(prompt) \/ diagramType = "")) =>
            /\ t_toast' \in {"enter_prompt", "select_type"}
            /\ t_log' = <<>>
            /\ t_pc' = "idle"
            /\ isGenerating' = FALSE
            /\ generatedDiagram' = generatedDiagram
            /\ persisted' = persisted ]_vars

\* C2 witness: a whitespace-only prompt has been refused while a record is
\* on display
C2_Witness ==
    /\ t_toast = "enter_prompt"
    /\ prompt = <<SP, NL>>
    /\ diagramType # ""
    /\ generatedDiagram # NoDiagram

----------------------------------------------------------------------------
(* C3 *)

\* the state Rendered: the svg of the current description is in the
\* container, scaled by the current zoom, and the loading card is gone
Rendered ==
    /\ viewer.mounted
    /\ Shown(viewer) = "svg"
    /\ viewer.container = SvgContent(viewer.diagramCode, viewer.zoom)

\* C3: a viewer that was handed a non-empty description eventually leaves
\* its loading state and reaches Rendered (or is taken off the page).
C3_EventuallyRendered ==
    (viewer.mounted /\ viewer.diagramCode # <<>>) ~> (Rendered \/ ~viewer.mounted)

----------------------------------------------------------------------------
(* C4 *)

----------------------------------------------------------------------------
(* C5 *)

\* C5: the zoom factor, which starts at 1.0, stays within [0.5, 3.0] under
\* any sequence of zoom-in, zoom-out and reset, and a reset yields 1.0.
C5_ZoomClamped ==
    /\ [](viewer.zoom \in ZoomMin..ZoomMax)
    /\ [][HandleResetZoom => viewer'.zoom = ZoomDefault]_vars

\* C5 witness: zooming out has hit the lower end of the range, which is off
\* the grid of steps below 1.0
C5_Witness ==
    /\ viewer.zoom = ZoomMin
    /\ (ZoomDefault - ZoomMin) % ZoomStep # 0

----------------------------------------------------------------------------
(* C6 *)

\* C6: the description of every record persisted by the text, dataset and
\* PDF flows is free of code-fence markers.
C6_PersistedFenceFree ==
    persisted # NoDiagram => ~HasFence(persisted.diagramCode)

----------------------------------------------------------------------------
(* C7 *)

\* C7: the description of every persisted record is non-empty after
\* sanitization, whatever the completion service answered.
C7_PersistedNonEmpty ==
    persisted # NoDiagram => CleanUp(persisted.diagramCode) # <<>>

----------------------------------------------------------------------------
(* C8 *)

\* C8: in the dataset flow and in the PDF flow a run whose completion call
\* failed ends in success, with a record persisted and displayed.
C8_CompletionFailureAbsorbed ==
    /\ (InLog(d_log, Fail("generateText")) /\ d_pc = "idle") =>
          /\ d_toast = "chart_generated"
          /\ generatedChart # NoDiagram
          /\ generatedChart = persisted
    /\ (InLog(p_log, Fail("generateText")) /\ p_pc = "idle") =>
          /\ p_toast = "pdf_processed"
          /\ generatedMindMap # NoDiagram
          /\ generatedMindMap = persisted

----------------------------------------------------------------------------
(* C9 *)

----------------------------------------------------------------------------
(* C10 *)

\* C10: when the store call of a confirmed delete of record r succeeds, r and
\* only r leaves the loaded set, and the selection becomes none if r was the
\* selected record and is unchanged otherwise.
C10_DeleteClearsSelection ==
    [][ \A call \in deletes :
          (deletes' = deletes \ {call} /\ h_toast' = "diagram_deleted") =>
              /\ diagrams' = SelectSeq(diagrams, LAMBDA d : d.id # call.diagramId)
              /\ selectedDiagram' =
                    IF selectedDiagram # NoDiagram
                          /\ selectedDiagram.id = call.diagramId
                    THEN NoDiagram
                    ELSE selectedDiagram ]_vars

----------------------------------------------------------------------------
(* C11 *)

\* the record is one of the loaded set
Loaded(d) == \E i \in 1..Len(diagrams) : diagrams[i] = d

\* C11: in every reachable state of the history view, selects interleaved
\* with a pending delete included, the selected record, if there is one, is
\* a member of the loaded record set.
C11_SelectionIsLoaded ==
    selectedDiagram # NoDiagram => Loaded(selectedDiagram)

----------------------------------------------------------------------------
(* C12 *)

\* two letters that differ in case at most
SameLetter(a, b) == a = b \/ {a, b} = {"S", "s"} \/ {a, b} = {"A", "a"}

\* text s contains text t, case ignored; the empty text is contained in all
ContainsIgnoringCase(s, t) ==
    \E i \in 0..(Len(s) - Len(t)) : \A j \in 1..Len(t) : SameLetter(s[i + j], t[j])

\* the record is wanted by the term and the kind selector
Wanted(d, term, kind) ==
    /\ \/ ContainsIgnoringCase(d.title, term)
       \/ "prompt" \in DOMAIN d /\ ContainsIgnoringCase(d.prompt, term)
    /\ kind = "all" \/ d.type = kind

\* C12: the filtered view is exactly the loaded records, in their order,
\* whose title or origin text contains the search term (case ignored, the
\* empty term matching all) and whose kind is the selector's unless the
\* selector is "all".
C12_FilteredViewIsTheFilter ==
    filteredDiagrams =
        SelectSeq(diagrams, LAMBDA d : Wanted(d, searchTerm, filterType))

\* C12 witness: the term "S" keeps the record titled "Sa" and the record
\* whose prompt is "as", and drops the third one
C12_Witness ==
    /\ Len(diagrams) = 3
    /\ searchTerm = <<"S">>
    /\ filterType = "all"
    /\ filteredDiagrams = <<Rec1, Rec3>>

----------------------------------------------------------------------------
(* C13 *)

\* C13: for the loaded set and every term T and kind K, filtering by T and
\* then by K gives what filtering by K and then by T gives, and filtering a
\* result again with the same T and K gives that result.
C13_FilterCommutesAndIsIdempotent ==
    \A term \in SearchTerms, kind \in FilterTypes :
        /\ Filtered(Filtered(diagrams, term, "all"), <<>>, kind)
             = Filtered(Filtered(diagrams, <<>>, kind), term, "all")
        /\ Filtered(Filtered(diagrams, term, kind), term, kind)
             = Filtered(diagrams, term, kind)

\* C13 witness: three records are loaded, the term "S" keeps two of them and
\* the kind "flowchart" one of these two
C13_Witness ==
    /\ Len(diagrams) = 3
    /\ Len(Filtered(diagrams, <<"S">>, "all")) = 2
    /\ Filtered(Filtered(diagrams, <<"S">>, "all"), <<>>, "flowchart") = <<Rec1>>

----------------------------------------------------------------------------
(* C14 *)

\* A step that ends loadDiagrams
LoadEnds == h_pc \in {"me", "list"} /\ h_pc' = "idle"

\* A step that ends loadDiagrams in its catch block: the lookup of the user
\* was rejected (the only way to leave "me" without going on to the list), or
\* the notice of the catch block is raised
LoadFails == LoadEnds /\ (h_pc = "me" \/ h_toast' = "failed_to_load")

\* C14: when loadDiagrams fails, at the lookup of the user or at the list of
\* the store, the loaded records and their filtered view are what they were
\* before the load (none, as the load runs when the view is mounted), the
\* notice "Failed to load diagrams" is raised, the loading flag is cleared
\* and the view goes on (its handler is idle again).
C14_LoadFailureKeepsLoadedSet ==
    [][LoadFails =>
         /\ diagrams' = diagrams
         /\ diagrams' = <<>>
         /\ filteredDiagrams' = filteredDiagrams
         /\ h_toast' = "failed_to_load"
         /\ h_isLoading' = FALSE]_vars

\* C14 witness: the history view after a failed load
C14_Witness ==
    /\ activeTab = "history"
    /\ h_pc = "idle"
    /\ h_toast = "failed_to_load"
    /\ diagrams = <<>>
    /\ ~h_isLoading

----------------------------------------------------------------------------
(* C15 *)

\* No loading flag of a mounted view is left set by a handler that has ended
FlagsClearWhenIdle ==
    /\ t_pc = "idle" => ~isGenerating
    /\ d_pc = "idle" => ~d_isProcessing
    /\ p_pc = "idle" => ~p_isProcessing
    /\ (activeTab = "history" /\ h_pc = "idle") => ~h_isLoading

\* C15: each loading flag that a handler has set (isGenerating by
\* handleGenerate, isProcessing by handleFileUpload and handleGenerateChart
\* of the dataset view, isProcessing by handleProcessPDF, isLoading by
\* loadDiagrams) is cleared again, whichever way the handler ends, and it is
\* never found set once its handler has ended.
C15_LoadingFlagsAreCleared ==
    /\ []<>(~isGenerating)
    /\ []<>(~d_isProcessing)
    /\ []<>(~p_isProcessing)
    /\ []<>(activeTab = "history" => ~h_isLoading)
    /\ []FlagsClearWhenIdle

\* C15 witness: a generation that failed at the store has ended with its
\* flag cleared and the control usable again
C15_Witness ==
    /\ InLog(t_log, Fail("create"))
    /\ t_pc = "idle"
    /\ ~isGenerating
    /\ ~GenerateDisabled

----------------------------------------------------------------------------
(* C16 *)

\* The text is missing or has fewer than 100 characters
TooShort(c) == ContentLength(c) < MinTextLen

\* A step in which the extraction of handleProcessPDF resolves and hands
\* over a text (line 66 stores it before it is tested)
ExtractionResolves ==
    /\ p_pc = "extract"
    /\ p_pc' # "extract"
    /\ InLog(p_log', Ok("extractFromUrl"))

\* C16: when the extraction of the document view hands over a text that is
\* missing or has fewer than 100 characters, handleProcessPDF ends there with
\* the failure notice, the completion service has not been called in this
\* run and is not called, and the record persisted and the record displayed
\* are what they were before (the displayed one is none).
C16_ShortTextIsRejected ==
    [][(ExtractionResolves /\ TooShort(extractedText')) =>
         /\ p_pc' = "idle"
         /\ p_toast' = "pdf_processing_failed"
         /\ ~InLog(p_log', Call("generateText"))
         /\ ~InLog(p_log', Call("create"))
         /\ persisted' = persisted
         /\ generatedMindMap' = NoDiagram
         /\ viewer' = viewer]_vars

\* C16 witness: a run that was rejected for a text of 99 characters
C16_Witness ==
    /\ p_pc = "idle"
    /\ extractedText = Content(0, 99)
    /\ InLog(p_log, Ok("extractFromUrl"))
    /\ p_toast = "pdf_processing_failed"
    /\ generatedMindMap = NoDiagram

----------------------------------------------------------------------------
(* C17 *)

\* The rows whose y cell parses as a number, each reduced to its x, its
\* numeric y and its label
Reduced(rows, sel) ==
    LET parses(i) == ~ParseFloat(rows[i][sel.y]).nan
        kept == SelectSeq([i \in 1..Len(rows) |-> i], parses)
    IN  [k \in 1..Len(kept) |->
            [ x     |-> rows[kept[k]][sel.x],
              y     |-> ParseFloat(rows[kept[k]][sel.y]),
              label |-> IF sel.label # <<>> THEN rows[kept[k]][sel.label]
                        ELSE rows[kept[k]][sel.x] ]]

\* C17: the chart data that handleGenerateChart computes from the parsed
\* rows and the selected columns are the rows whose y value parses as a
\* number, each with that number, and no row whose y value does not parse.
C17_UnparsableRowsAreDropped ==
    d_pc \in {"ai", "create"} =>
        d_run.chartData = Reduced(d_run.parsedData, d_run.selectedColumns)

----------------------------------------------------------------------------
(* C18 *)

\* A step in which blink.db.diagrams.create() resolves in one of the three
\* generating views: a Diagram Record has been created
Created ==
    \/ t_pc = "create" /\ t_pc' = "idle" /\ t_toast' = "success"
    \/ d_pc = "create" /\ d_pc' = "idle" /\ d_toast' = "chart_generated"
    \/ p_pc = "create" /\ p_pc' = "idle" /\ p_toast' = "pdf_processed"

\* C18: a Diagram Record that is created for a user never carries the
\* identifier of the record created for that user before it (all records of
\* the model are created for the one user of the model).
C18_IdentifiersAreDistinct ==
    [][(Created /\ persisted # NoDiagram) => persisted'.id # persisted.id]_vars

----------------------------------------------------------------------------
(* C19 *)

\* A step in which the store is called to delete a record
DeleteCalled == deletes' \ deletes # {}

\* A step in which the user declines the confirmation of a delete
Declined == h_toast' = "declined" /\ h_toast # "declined"

\* A step in which the user accepts the confirmation of a delete
Accepted == h_toast' = "none" /\ activeTab' = "history" /\ activeTab = "history"

\* C19: the store is called to delete a record only in a step in which the
\* user has accepted the confirmation; a step in which the user declines it
\* calls nothing and leaves the pending calls, the loaded records, their
\* filtered view and the selection as they were; and a record leaves the
\* loaded records only when a call that was pending has returned.
C19_DeleteNeedsConfirmation ==
    [][/\ DeleteCalled => Accepted
       /\ Declined => UNCHANGED <<deletes, diagrams, filteredDiagrams, selectedDiagram,
                                  viewer, persisted>>
       /\ (activeTab' = activeTab /\ Len(diagrams') < Len(diagrams)) =>
              \E call \in deletes \ deletes' :
                  diagrams' = Without(diagrams, call.diagramId)]_vars

\* C19 witness: the user has declined a delete while a record was selected:
\* nothing is pending and the three loaded records are still there
C19_Witness ==
    /\ h_toast = "declined"
    /\ deletes = {}
    /\ Len(diagrams) = 3
    /\ selectedDiagram # NoDiagram

----------------------------------------------------------------------------
(* C20 *)

\* The toasts of handleGenerate with variant "destructive"
ValidationToasts == {"enter_prompt", "select_type"}
TextErrorSignalled == t_toast \in ValidationToasts \cup {"generation_failed"}

\* The last call of handleGenerate was refused by a validation, before any
\* call of a service
RefusedByValidation == t_toast \in ValidationToasts /\ t_log = <<>>

\* C20: (as the claim states it) the text view signals an error only when a
\* validation has refused the call before any call of a service, or when the
\* create call of the store has failed.
C20_ErrorOnlyForValidationOrStore ==
    TextErrorSignalled => (RefusedByValidation \/ InLog(t_log, Fail("create")))

\* C20: (amended) the text view signals an error exactly when a validation
\* has refused the call before any call of a service, when the lookup of the
\* user has failed, or when the create call of the store has failed; a
\* failure of the completion service alone signals none, and a call that
\* ends without any of the three ends with the success notice.
C20_ErrorForValidationUserOrStore ==
    /\ t_toast \in ValidationToasts => t_log = <<>>
    /\ t_toast = "generation_failed" <=>
           (InLog(t_log, Fail("me")) \/ InLog(t_log, Fail("create")))
    /\ (t_pc = "idle" /\ t_log # <<>> /\ ~TextErrorSignalled) =>
           (t_toast = "success" /\ InLog(t_log, Ok("create")))

\* C20 witness: the lookup of the user has failed and the error is signalled,
\* with no call of the completion service or of the store
C20_Witness ==
    /\ t_pc = "idle"
    /\ t_toast = "generation_failed"
    /\ InLog(t_log, Fail("me"))
    /\ ~InLog(t_log, Call("create"))

----------------------------------------------------------------------------
(* C21 *)

\* No call of renderDiagram is suspended and React has committed the state
\* the last call left
Settled == viewer.attempts = {} /\ Commit(viewer) = viewer

----------------------------------------------------------------------------
(* C22 *)

\* The last attempt ended with both render calls rejected, and nothing has
\* been started since
RawEnded ==
    /\ viewer.last # NoAttempt
    /\ viewer.last.outcome = "raw"
    /\ viewer.attempts = {}
    /\ viewer.error # Null

----------------------------------------------------------------------------
(* C23 *)

\* every record of list a is a record of list b
SubsetOf(a, b) == \A i \in 1..Len(a) : \E j \in 1..Len(b) : b[j] = a[i]

\* A step of the mounted history view
HistoryStep == activeTab = "history" /\ activeTab' = "history"

\* filterDiagrams runs in an effect (lines 89-91), that is after React has
\* committed the render that the step's setState calls asked for: that
\* render pairs the state the step has set with the filteredDiagrams held
\* before the step.
ViewBeforeEffect == filteredDiagrams

\* C23: a change of the search term or of the kind selector changes neither
\* the loaded records nor the selection; after every step of the history
\* view the filtered view is, once the effect has run, the filter of the
\* loaded records by the term and the selector then current; and the
\* filtered view is a part of the loaded records at all times, in the render
\* before the effect has run as well as after it.
C23_FilteredViewIsPartOfLoadedSet ==
    [][HistoryStep =>
         /\ (searchTerm' # searchTerm \/ filterType' # filterType) =>
                UNCHANGED <<diagrams, selectedDiagram>>
         /\ filteredDiagrams' = Filtered(diagrams', searchTerm', filterType')
         /\ SubsetOf(filteredDiagrams', diagrams')
         /\ SubsetOf(ViewBeforeEffect, diagrams')]_vars

----------------------------------------------------------------------------
(* C24 *)

\* the flow that created a record, read from the prefix of its identifier
FlowOf(d) == d.id[1]

\* C24: every record that a flow hands to the store, and so every record
\* created and every record displayed, has a kind of the fixed enumeration:
\* a record of the text flow one of the kinds its Select offers, a record of
\* the dataset flow one of bar, pie, line and scatter, a record of the
\* document flow the kind mindmap.
C24_KindIsOfTheEnumeration ==
    \A d \in {persisted, generatedDiagram, generatedChart, generatedMindMap,
              t_run.diagramData, d_run.chartDiagram, p_run.mindMapData} \ {NoDiagram} :
        /\ d.type \in DiagramKinds
        /\ FlowOf(d) = "diagram" => d.type \in DIAGRAM_TYPES
        /\ FlowOf(d) = "chart" => d.type \in CHART_TYPES
        /\ FlowOf(d) = "mindmap" => d.type = "mindmap"

\* C24 witness: a scatter chart, a kind that only the dataset flow offers,
\* has been created
C24_Witness ==
    /\ persisted # NoDiagram
    /\ persisted.type = "scatter"
    /\ generatedChart = persisted

----------------------------------------------------------------------------
(* C25 *)

\* event a is in the log, and event b is not or comes after a
Precedes(log, a, b) ==
    InLog(log, a) /\ (InLog(log, b) => FirstAt(log, a) < FirstAt(log, b))

\* the completion call of this run has returned or failed
CompletionEnded(log) == InLog(log, Ok("generateText")) \/ InLog(log, Fail("generateText"))

\* The order of the calls of one run of handleGenerate, read from its log
StepsInOrder ==
    /\ t_log # <<>> => t_log[1] = Call("me")
    /\ InLog(t_log, Call("generateText")) =>
           Precedes(t_log, Ok("me"), Call("generateText"))
    /\ InLog(t_log, Call("create")) =>
           /\ Precedes(t_log, Call("generateText"), Call("create"))
           /\ \/ Precedes(t_log, Ok("generateText"), Call("create"))
              \/ Precedes(t_log, Fail("generateText"), Call("create"))
    /\ InLog(t_log, Ok("create")) => Precedes(t_log, Call("create"), Ok("create"))
    /\ t_pc # "idle" => (~PromptMissing(t_run.prompt) /\ ~TypeMissing(t_run.diagramType))
    /\ t_pc = "create" => t_run.diagramData # NoDiagram
    /\ t_toast = "success" => (InLog(t_log, Ok("create")) /\ generatedDiagram = persisted)

\* the descriptions the clean-up can hand over for a run: the cleaned answer
\* of the completion service, or the cleaned fallback
Sanitized(type, p) ==
    { CleanUp(Trim(r)) : r \in Responses } \cup { CleanUp(FallbackDiagram(type, p)) }

\* C25: in one run of handleGenerate the calls are made in this order: the
\* validations, the lookup of the user, the completion call, the clean-up,
\* the create call of the store, the display of the record with the success
\* notice.  No call is made for a prompt or a type the validations refuse,
\* the store is called only after the completion call has returned or
\* failed, the record handed to the store carries the cleaned description,
\* and the record is displayed only in the step in which the create call
\* resolves, as the record that was handed to the store.
C25_StepsInOrder ==
    /\ []StepsInOrder
    /\ [][(t_pc = "ai" /\ t_pc' = "create") =>
            /\ CompletionEnded(t_log')
            /\ t_run'.diagramData.diagramCode \in Sanitized(t_run.diagramType, t_run.prompt)
            /\ t_run'.diagramData.type = t_run.diagramType
            /\ UNCHANGED <<generatedDiagram, persisted>>]_vars
    /\ [][(activeTab' = activeTab /\ generatedDiagram' # generatedDiagram) =>
            /\ t_pc = "create"
            /\ InLog(t_log', Ok("create"))
            /\ generatedDiagram' = t_run.diagramData
            /\ persisted' = t_run.diagramData
            /\ t_toast' = "success"]_vars

\* C25 witness: a run whose completion call failed has gone through all the
\* steps: the fallback was cleaned, handed to the store and displayed
C25_Witness ==
    /\ t_pc = "idle"
    /\ t_log = <<Call("me"), Ok("me"), Call("generateText"), Fail("generateText"),
                 Call("create"), Ok("create")>>
    /\ t_toast = "success"
    /\ generatedDiagram # NoDiagram
    /\ generatedDiagram.diagramCode
         = CleanUp(FallbackDiagram(generatedDiagram.type, generatedDiagram.prompt))

----------------------------------------------------------------------------
(* C26 *)

\* disabled={isProcessing || !chartType || !selectedColumns.x || !selectedColumns.y}
GenerateChartDisabled ==
    d_isProcessing \/ chartType = "" \/ selectedColumns.x = <<>> \/ selectedColumns.y = <<>>

\* disabled={isProcessing} of the file input of the dataset view
DataInputDisabled == d_isProcessing

\* disabled={isProcessing} of the file input and of the Generate Mind Map
\* button of the document view
PdfControlsDisabled == p_isProcessing

----------------------------------------------------------------------------
(* C27 *)

\* the records the three producing views display
Displayed == <<generatedDiagram, generatedChart, generatedMindMap>>

\* A step in which a handler of a producing view ends without a create call
\* of the store that resolved: the lookup of the user, the completion call
\* or the create call was rejected, or the text was insufficient
ActionFails ==
    \/ t_pc # "idle" /\ t_pc' = "idle" /\ ~InLog(t_log', Ok("create"))
    \/ d_pc \in {"me", "ai", "create"} /\ d_pc' = "idle" /\ ~InLog(d_log', Ok("create"))
    \/ p_pc # "idle" /\ p_pc' = "idle" /\ ~InLog(p_log', Ok("create"))

\* A step in which a view takes a record for display
RecordDisplayed ==
    \E i \in 1..3 : Displayed'[i] # Displayed[i] /\ Displayed'[i] # NoDiagram

\* C27: in every state a record that a producing view displays is the record
\* the store has created last; a view takes a record for display only in
\* the step in which the create call for that record resolves; and an action
\* that fails, at the lookup of the user, at the completion call where the
\* fallback does not absorb the failure, or at the create call, leaves the
\* displayed records as they were.
C27_DisplayedWasPersisted ==
    /\ [](\A i \in 1..3 : Displayed[i] # NoDiagram => Displayed[i] = persisted)
    /\ [][RecordDisplayed =>
            /\ persisted' \in {t_run.diagramData, d_run.chartDiagram, p_run.mindMapData}
            /\ \E i \in 1..3 : Displayed'[i] = persisted'
            /\ \/ t_pc = "create" /\ InLog(t_log', Ok("create"))
               \/ d_pc = "create" /\ InLog(d_log', Ok("create"))
               \/ p_pc = "create" /\ InLog(p_log', Ok("create"))]_vars
    /\ [][ActionFails => UNCHANGED <<Displayed, persisted>>]_vars

\* C27 witness: the text view displays a record, and a later generation has
\* failed at the create call of the store without changing it
C27_Witness ==
    /\ t_pc = "idle"
    /\ InLog(t_log, Fail("create"))
    /\ generatedDiagram # NoDiagram
    /\ generatedDiagram = persisted

----------------------------------------------------------------------------
(* C28 *)

\* the values setProgress is given in handleProcessPDF, in order
ProgressValues == {0, 20, 40, 70, 90, 100}

\* A step taken while a run of handleProcessPDF is suspended, that leaves
\* it suspended
PdfInFlightStep == p_isProcessing /\ p_isProcessing'

\* C28: while a run of handleProcessPDF is in flight, the displayed progress
\* never decreases and takes only the values 0, 20, 40, 70, 90, 100, and
\* the step label is never blanked, whatever the interleaving with the
\* delayed reset that the end of an earlier run has scheduled.
C28_ProgressNeverDecreasesInFlight ==
    [][PdfInFlightStep =>
        /\ progress' \in ProgressValues
        /\ progress' >= progress
        /\ processingStep' # ""]_vars

----------------------------------------------------------------------------
(* C29 *)

\* The file the dataset view holds was parsed: it is a CSV file whose text
\* has a header line
Parseable(f) == f \in DataFiles /\ EndsWithCsv(f.name) /\ ~ParseThrows(f.lines)

\* C29: once handleFileUpload has ended, the rows and the column names the
\* dataset view holds are those parsed from the file it holds, or are empty
\* when that file was not parsed; so a chart titled after the file is
\* generated from the rows of that file.
C29_RowsAreOfTheCurrentFile ==
    d_pc # "text" =>
        \/ parsedData = <<>> /\ columns = <<>>
        \/ /\ Parseable(d_file)
           /\ parsedData = ParseCsv(d_file.lines).data
           /\ columns = ParseCsv(d_file.lines).headers

----------------------------------------------------------------------------
(* C30 *)

\* A step in which a pending call of the store's delete returns
DeleteEnds == activeTab = "history" /\ deletes' # deletes /\ deletes' \subseteq deletes

\* A step in which a pending call of the store's delete is rejected: the
\* catch block of handleDeleteDiagram shows its notice
DeleteFails == DeleteEnds /\ h_toast' = "failed_to_delete"

\* The delete button of the record with this id is on the screen: the list is
\* rendered and the record is in the filtered view (the button is never
\* disabled)
CanDelete(id) ==
    /\ ListShown
    /\ \E i \in 1..Len(filteredDiagrams) : filteredDiagrams[i].id = id

\* the ids of the records of a list
IdsOf(list) == {list[i].id : i \in 1..Len(list)}

\* C30: a call of the store's delete ends either with the notice of success
\* or with the notice of failure; when it is rejected the loaded records,
\* their filtered view, the selection and the preview are exactly as before,
\* the record is listed as it was, and the delete of a record that is still
\* listed can be asked for again.
C30_FailedDeleteChangesNothing ==
    /\ [][DeleteEnds => h_toast' \in {"diagram_deleted", "failed_to_delete"}]_vars
    /\ [][DeleteFails =>
            /\ UNCHANGED <<diagrams, filteredDiagrams, selectedDiagram, viewer>>
            /\ \A call \in deletes \ deletes' :
                 call.diagramId \in IdsOf(filteredDiagrams) => CanDelete(call.diagramId)']_vars

\* C30 witness: a delete of the selected record was rejected: the notice of
\* failure is shown, the record is still loaded, listed and selected, and
\* a delete can be asked for and accepted again
C30_Witness ==
    /\ activeTab = "history"
    /\ h_toast = "failed_to_delete"
    /\ deletes = {}
    /\ selectedDiagram # NoDiagram
    /\ diagrams \in StoreLists
    /\ \E i \in 1..Len(diagrams) : diagrams[i] = selectedDiagram
    /\ CanDelete(selectedDiagram.id)
    /\ ENABLED (HandleDeleteDiagram /\ deletes' # deletes)

====
